---- MODULE Spec2Model ----
(***************************************************************************)
(* Cross-chain bridge event listener (script.py): the checkpointed block   *)
(* range scanner of EventListener, the checkpoint file, the per-event      *)
(* dispatch to EventProcessor and the gas price fallback chain; and the    *)
(* layered configuration of ConfigLoader (loader.py).                      *)
(***************************************************************************)
EXTENDS Integers, Sequences, FiniteSets

VARIABLES
    cfg,                   \* the config dict handed to EventListener(config)
    head,                  \* the source chain's head height, as last reported
    stateFile,             \* content of listener_settings.state_file on disk
    pc,                    \* where the process is
    srcWeb3,               \* source_connector.web3 is not None
    srcContract,           \* source_bridge_contract is not None
    last_processed_block,  \* EventListener.last_processed_block
    latest_block,          \* run(): latest_block
    from_block,            \* run(): from_block
    to_block,              \* run(): to_block
    events,                \* _process_block_range: events not yet dispatched
    delivered,             \* events handed to process_event in this cycle
    scan,                  \* the most recent scanning cycle of this process
    hiSaved,               \* highest height ever written completely to the file
    intr,                  \* the save that a stop of the process interrupted
    inflight,              \* the batch that a stop of the process left unsaved
    gas,                   \* _get_gas_price: inputs and result of one quote
    destWeb3,              \* event_processor.dest_connector.web3 is not None
    destContract,          \* event_processor.dest_bridge_contract is not None
    destUp,                \* the destination node answers (as last probed)
    handled,               \* process_event calls of this cycle: event and outcome
    nap,                   \* the time.sleep of run() in progress
    stopAt,                \* where the process was when it stopped
    conf                   \* ConfigLoader: os.environ, the three sources, the result

vars == <<cfg, head, stateFile, pc, srcWeb3, srcContract, last_processed_block,
          latest_block, from_block, to_block, events, delivered, scan,
          hiSaved, intr, inflight, gas, destWeb3, destContract, destUp, handled,
          nap, stopAt, conf>>

----------------------------------------------------------------------------
(* Bounds of the model *)

\* heads range over start_block + k * HeadStep, k in -1..MaxAhead
MaxAhead == 5
\* external oracle "fast" prices 0..MaxGwei
MaxGwei == 4

----------------------------------------------------------------------------
(* Configuration *)

START_BLOCK == 1000000
BATCH_SIZE == 100
FLOOR_GWEI == 20
POLL_INTERVAL == 15

\* CONFIG of the script, and two small configurations of the same shape
CONFIG == [start_block |-> START_BLOCK, batch |-> BATCH_SIZE]

Configs == {CONFIG, [start_block |-> 3, batch |-> 2], [start_block |-> 1, batch |-> 3]}

HeadStep(c) == IF c.batch \div 2 > 1 THEN c.batch \div 2 ELSE 1

Heads(c) == {c.start_block + k * HeadStep(c) : k \in -1..MaxAhead}

\* the TokensLocked events on the source chain: one at each listed height
EventBlocks(c) == {c.start_block + k * HeadStep(c) : k \in {j \in 1..MaxAhead : j % 3 # 0}}

----------------------------------------------------------------------------
(* The checkpoint file *)

NoVal == [kind |-> "absent", vkind |-> "none", v |-> 0]
Absent == NoVal
Empty == [kind |-> "empty", vkind |-> "none", v |-> 0]
Obj(n) == [kind |-> "object", vkind |-> "int", v |-> n]

IsHeight(f) == f.kind = "object" /\ f.vkind = "int"

\* int(x) of Python on a decoded JSON value: raised, or the integer
PyInt(vkind, v) ==
    CASE vkind = "int" -> [raised |-> FALSE, val |-> v]
      [] vkind = "float" -> [raised |-> FALSE, val |-> v]
      [] vkind = "numstr" -> [raised |-> FALSE, val |-> v]
      [] vkind = "bool" -> [raised |-> FALSE, val |-> v]
      [] OTHER -> [raised |-> TRUE, val |-> 0]

load_state(f, c) ==
    CASE f.kind = "absent" -> [raised |-> FALSE, val |-> c.start_block]
      [] f.kind \in {"empty", "partial", "garbage"} -> [raised |-> FALSE, val |-> c.start_block]
      [] f.kind = "nonobject" -> [raised |-> TRUE, val |-> 0]
      [] f.kind = "object" ->
            IF f.vkind = "missing" THEN PyInt("int", c.start_block) ELSE PyInt(f.vkind, f.v)

----------------------------------------------------------------------------
(* run(): the range of a cycle *)

\* get_latest_block_number() returned None
None == -1

Min(a, b) == IF a < b THEN a ELSE b
Max(a, b) == IF a > b THEN a ELSE b

\* a faulty FromBlock: the range starts at the checkpoint itself
FromBlock_Overlap(last) == last

FromBlock(last) == last + 1

\* a faulty ToBlock: one height too many
ToBlock_OffByOne(latest, from, batch) == Min(latest, from + batch)

ToBlock(latest, from, batch) == Min(latest, from + batch - 1)

RECURSIVE Ascending(_)
Ascending(S) ==
    IF S = {} THEN <<>>
    ELSE LET m == CHOOSE x \in S : \A y \in S : x <= y
         IN <<m>> \o Ascending(S \ {m})

\* event_filter.get_all_entries() of a successful query
get_all_entries(c, from, to) == Ascending({b \in EventBlocks(c) : from <= b /\ b <= to})

SeqSet(s) == {s[i] : i \in 1..Len(s)}

NoScan == [res |-> "none", from |-> 0, to |-> 0, latest |-> 0, file |-> NoVal]
NoIntr == [on |-> FALSE, prev |-> NoVal, new |-> 0]
NoFlight == [on |-> FALSE, from |-> 0, to |-> 0, evs |-> {}]
NoGas == [api |-> "none", gwei |-> 0, dest |-> "none", node |-> <<0, 0>>,
          done |-> FALSE, raised |-> FALSE, tag |-> "none", price |-> <<0, 0>>]
NoNap == [why |-> "none", secs |-> 0, connects |-> 0]
\* {}
EmptyDict == [k \in {} |-> 0]
NoConf == [base |-> EmptyDict, envf |-> EmptyDict, envv |-> EmptyDict,
           final |-> EmptyDict, done |-> FALSE,
           environ |-> <<>>, envdone |-> FALSE, raised |-> FALSE]

Running == pc \in {"top", "scan", "dispatch", "advance", "save_open", "save_write",
                   "sleep", "backoff"}
Stopped == pc \in {"off", "dead", "exited", "escaped", "crashed"}

\* a faulty SleepSeconds: the sleep after an error, whatever ended the cycle
SleepSeconds_Long(why) == POLL_INTERVAL * 2

\* the argument of time.sleep: lines 203, 208, 223 and line 230
SleepSeconds(why) == IF why = "error" THEN POLL_INTERVAL * 2 ELSE POLL_INTERVAL

\* run() goes to sleep; connects: the connect() calls the cycle made
Nap(why, connects) == [why |-> why, secs |-> SleepSeconds(why), connects |-> connects]

----------------------------------------------------------------------------
(* EventProcessor._get_gas_price *)

\* An amount of wei as <<q, r>>: q * 10^9 + r, 0 <= r < 10^9
\* Web3.to_wei(n, 'gwei')
to_wei_gwei(n) == <<n, 0>>

\* what the external oracle call does
ApiOutcomes == {"ok", "timeout", "http_error", "malformed"}

\* the destination node: no handle (web3 is None), a handle whose eth.gas_price
\* answers, a handle whose eth.gas_price raises
DestOutcomes == {"none", "live", "error"}

NodePrices == {<<q, r>> : q \in 0..MaxGwei, r \in {0, 500000000}}

\* lines 325-336: the value returned and the return statement it comes from, or raised
get_gas_price(api, gwei, dest, node) ==
    IF api = "ok"
    THEN [raised |-> FALSE, tag |-> "external-oracle", price |-> to_wei_gwei(gwei)]
    ELSE IF dest # "none"
         THEN IF dest = "live"
              THEN [raised |-> FALSE, tag |-> "node-suggested", price |-> node]
              ELSE [raised |-> TRUE, tag |-> "none", price |-> <<0, 0>>]
         ELSE [raised |-> FALSE, tag |-> "hardcoded-floor", price |-> to_wei_gwei(FLOOR_GWEI)]

----------------------------------------------------------------------------
(* EventProcessor.process_event *)

\* lines 277-320. ready: the contract handle, the relayer account and the web3
\* handle are all there; nonce_ok: get_transaction_count answered; quote_raised:
\* _get_gas_price raised; built: build_transaction and sign_transaction succeeded.
\* Nothing is raised to the caller: lines 279-281 return, lines 319-320 log.
process_event(ready, nonce_ok, quote_raised, built) ==
    IF ~ready THEN "unavailable"
    ELSE IF nonce_ok /\ ~quote_raised /\ built THEN "signed"
    ELSE "failed"

\* a faulty loop: a failed event ends the batch
AfterEvent_Abort(out, rest) ==
    IF rest = <<>> \/ out # "signed" THEN "advance" ELSE "dispatch"

\* lines 248-250: the for loop goes on to the next event whatever the outcome
AfterEvent(out, rest) == IF rest = <<>> THEN "advance" ELSE "dispatch"

\* a faulty loop: the batch is walked from its end
NextEvent_Last(evs) == evs[Len(evs)]

\* line 248: the events are taken in the order the query returned them
NextEvent(evs) == Head(evs)

----------------------------------------------------------------------------
(* EventListener.__init__ *)

Init ==
    /\ cfg \in Configs
    /\ head \in Heads(cfg)
    /\ stateFile \in {Absent, Obj(cfg.start_block + HeadStep(cfg))}
    /\ pc = "off"
    /\ srcWeb3 = FALSE
    /\ srcContract = FALSE
    /\ last_processed_block = 0
    /\ latest_block = None
    /\ from_block = 0
    /\ to_block = 0
    /\ events = <<>>
    /\ delivered = {}
    /\ scan = NoScan
    /\ hiSaved = IF IsHeight(stateFile) THEN stateFile.v ELSE -1
    /\ intr = NoIntr
    /\ inflight = NoFlight
    /\ gas = NoGas
    /\ destWeb3 = FALSE
    /\ destContract = FALSE
    /\ destUp = FALSE
    /\ handled = <<>>
    /\ nap = NoNap
    /\ stopAt = "none"
    /\ conf = NoConf

\* connected: the source node answered connect(); live: it answers
\* is_connected() in get_contract; dconnected, dlive: the same of the
\* destination node in EventProcessor.__init__
ConstructAll(connected, live, dconnected, dlive) ==
    /\ Stopped
    /\ srcWeb3' = connected
    /\ srcContract' = (connected /\ live)
    /\ destWeb3' = dconnected
    /\ destContract' = (dconnected /\ dlive)
    /\ destUp' = (dconnected /\ dlive)
    /\ LET r == load_state(stateFile, cfg)
       IN IF r.raised
          THEN /\ pc' = "crashed"
               /\ last_processed_block' = 0
          ELSE /\ pc' = "top"
               /\ last_processed_block' = r.val
    /\ latest_block' = None
    /\ from_block' = 0
    /\ to_block' = 0
    /\ events' = <<>>
    /\ delivered' = {}
    /\ scan' = NoScan
    /\ intr' = NoIntr
    /\ handled' = <<>>
    /\ nap' = NoNap
    /\ stopAt' = "none"
    /\ UNCHANGED <<cfg, head, stateFile, hiSaved, inflight, gas, conf>>

Construct(connected, live) ==
    \E dconnected, dlive \in BOOLEAN : ConstructAll(connected, live, dconnected, dlive)

----------------------------------------------------------------------------
(* EventListener.run: one cycle *)

\* line 200: is_connected() is false (no handle, or the node does not answer:
\* live = FALSE); connect() then leaves a handle iff the node answers;
\* lines 203-204: sleep, continue
Reconnect(live, connected) ==
    /\ pc = "top"
    /\ ~(srcWeb3 /\ live)
    /\ srcWeb3' = connected
    /\ nap' = Nap("reconnect", 1)
    /\ pc' = "sleep"
    /\ UNCHANGED <<cfg, head, stateFile, srcContract, last_processed_block,
                   latest_block, from_block, to_block, events, delivered, scan,
                   hiSaved, intr, inflight, gas, destWeb3, destContract, destUp,
                   handled, stopAt, conf>>

\* line 206: get_latest_block_number() is None (the connection dropped after
\* line 200, or eth.block_number raised); lines 208-209: sleep, continue
LatestUnavailable ==
    /\ pc = "top"
    /\ srcWeb3
    /\ latest_block' = None
    /\ nap' = Nap("nolatest", 0)
    /\ pc' = "sleep"
    /\ UNCHANGED <<cfg, head, stateFile, srcWeb3, srcContract,
                   last_processed_block, from_block, to_block, events, delivered,
                   scan, hiSaved, intr, inflight, gas, destWeb3, destContract,
                   destUp, handled, stopAt, conf>>

\* lines 206-216 and 223: the node reports height L and there is nothing new
NoNewBlocks(L) ==
    /\ pc = "top"
    /\ srcWeb3
    /\ FromBlock(last_processed_block) > L
    /\ head' = L
    /\ latest_block' = L
    /\ from_block' = FromBlock(last_processed_block)
    /\ to_block' = ToBlock(L, FromBlock(last_processed_block), cfg.batch)
    /\ nap' = Nap("idle", 0)
    /\ pc' = "sleep"
    /\ UNCHANGED <<cfg, stateFile, srcWeb3, srcContract, last_processed_block,
                   events, delivered, scan, hiSaved, intr, inflight, gas,
                   destWeb3, destContract, destUp, handled, stopAt, conf>>

\* lines 206-219: the node reports height L and the range [from, to] is due
BeginScan(L) ==
    /\ pc = "top"
    /\ srcWeb3
    /\ FromBlock(last_processed_block) <= L
    /\ head' = L
    /\ latest_block' = L
    /\ from_block' = FromBlock(last_processed_block)
    /\ to_block' = ToBlock(L, FromBlock(last_processed_block), cfg.batch)
    /\ scan' = [res |-> "pending", from |-> from_block', to |-> to_block',
                latest |-> L, file |-> stateFile]
    /\ delivered' = {}
    /\ handled' = <<>>
    /\ pc' = "scan"
    /\ UNCHANGED <<cfg, stateFile, srcWeb3, srcContract, last_processed_block,
                   events, hiSaved, intr, inflight, gas, destWeb3, destContract,
                   destUp, nap, stopAt, conf>>

\* time.sleep returns: the next iteration of while True
Wake ==
    /\ pc \in {"sleep", "backoff"}
    /\ pc' = "top"
    /\ nap' = NoNap
    /\ handled' = <<>>
    /\ UNCHANGED <<cfg, head, stateFile, srcWeb3, srcContract,
                   last_processed_block, latest_block, from_block, to_block,
                   events, delivered, scan, hiSaved, intr, inflight, gas,
                   destWeb3, destContract, destUp, stopAt, conf>>

----------------------------------------------------------------------------
(* EventListener._process_block_range *)

ScanFrame == UNCHANGED <<cfg, head, stateFile, srcWeb3, srcContract,
                         last_processed_block, latest_block, from_block, to_block,
                         delivered, hiSaved, intr, inflight, gas, destWeb3,
                         destContract, destUp, handled, nap, stopAt, conf>>

\* lines 234-236: no contract handle, return
SkipNoContract ==
    /\ pc = "scan"
    /\ ~srcContract
    /\ scan' = [scan EXCEPT !.res = "nocontract"]
    /\ pc' = "advance"
    /\ UNCHANGED events
    /\ ScanFrame

\* lines 238-246: the query answers with the events of [from, to]
QueryOk ==
    /\ pc = "scan"
    /\ srcContract
    /\ scan' = [scan EXCEPT !.res = "ok"]
    /\ events' = get_all_entries(cfg, from_block, to_block)
    /\ pc' = IF events' = <<>> THEN "advance" ELSE "dispatch"
    /\ ScanFrame

\* lines 252-256: BlockNotFound, sleep, return
QueryBlockNotFound ==
    /\ pc = "scan"
    /\ srcContract
    /\ scan' = [scan EXCEPT !.res = "bnf"]
    /\ pc' = "advance"
    /\ UNCHANGED events
    /\ ScanFrame

\* lines 257-258: any other exception of the query, return
QueryFails ==
    /\ pc = "scan"
    /\ srcContract
    /\ scan' = [scan EXCEPT !.res = "err"]
    /\ pc' = "advance"
    /\ UNCHANGED events
    /\ ScanFrame

\* lines 248-250: the next event of the batch is handed to process_event.
\* live: the destination node answers get_transaction_count and eth.gas_price;
\* api: what the external oracle call does; built: build and sign succeed
Dispatch(live, api, built) ==
    /\ pc = "dispatch"
    /\ events # <<>>
    /\ LET ready == destContract /\ destWeb3
           quote == get_gas_price(api, 0, IF live THEN "live" ELSE "error", <<0, 0>>)
           out == process_event(ready, live, quote.raised, built)
       IN /\ handled' = Append(handled, [ev |-> NextEvent(events), out |-> out])
          /\ delivered' = delivered \cup {NextEvent(events)}
          /\ events' = Tail(events)
          /\ destUp' = IF ready THEN live ELSE destUp
          /\ pc' = AfterEvent(out, events')
    /\ UNCHANGED <<cfg, head, stateFile, srcWeb3, srcContract, last_processed_block,
                   latest_block, from_block, to_block, scan, hiSaved, intr,
                   inflight, gas, destWeb3, destContract, nap, stopAt, conf>>

----------------------------------------------------------------------------
(* run(), lines 220-221, and _save_state *)

\* line 220
Advance ==
    /\ pc = "advance"
    /\ last_processed_block' = to_block
    /\ pc' = "save_open"
    /\ UNCHANGED <<cfg, head, stateFile, srcWeb3, srcContract, latest_block,
                   from_block, to_block, events, delivered, scan, hiSaved, intr,
                   inflight, gas, destWeb3, destContract, destUp, handled, nap,
                   stopAt, conf>>

SaveFrame == UNCHANGED <<cfg, head, srcWeb3, srcContract, last_processed_block,
                         latest_block, from_block, to_block, events, delivered,
                         scan, intr, gas, destWeb3, destContract, destUp, handled,
                         stopAt, conf>>

\* line 191: open(state_file, 'w') truncates the file
SaveOpen ==
    /\ pc = "save_open"
    /\ stateFile' = Empty
    /\ pc' = "save_write"
    /\ UNCHANGED <<hiSaved, inflight, nap>>
    /\ SaveFrame

\* line 191 raises (OSError): caught at line 228, longer sleep at line 230
SaveOpenFails ==
    /\ pc = "save_open"
    /\ pc' = "backoff"
    /\ nap' = Nap("error", 0)
    /\ inflight' = NoFlight
    /\ UNCHANGED <<stateFile, hiSaved>>
    /\ SaveFrame

\* lines 192-193 and the close of the file: the object is on disk; line 223
SaveWrite ==
    /\ pc = "save_write"
    /\ stateFile' = Obj(last_processed_block)
    /\ hiSaved' = Max(hiSaved, last_processed_block)
    /\ inflight' = NoFlight
    /\ pc' = "sleep"
    /\ nap' = Nap("done", 0)
    /\ SaveFrame

\* line 192 or the close raises (the disk is full): the file stays truncated;
\* caught at line 228, longer sleep at line 230
SaveWriteFails ==
    /\ pc = "save_write"
    /\ pc' = "backoff"
    /\ nap' = Nap("error", 0)
    /\ inflight' = NoFlight
    /\ UNCHANGED <<stateFile, hiSaved>>
    /\ SaveFrame

----------------------------------------------------------------------------
(* The process stops *)

DispatchStarted ==
    /\ pc \in {"dispatch", "advance", "save_open", "save_write"}
    /\ delivered # {}

StopAt(where) ==
    /\ Running
    /\ pc' = where
    /\ stopAt' = pc
    /\ intr' = IF pc = "save_write"
               THEN [on |-> TRUE, prev |-> scan.file, new |-> last_processed_block]
               ELSE NoIntr
    /\ inflight' = IF DispatchStarted
                   THEN [on |-> TRUE, from |-> from_block, to |-> to_block,
                         evs |-> SeqSet(get_all_entries(cfg, from_block, to_block))]
                   ELSE inflight
    /\ srcWeb3' = FALSE
    /\ srcContract' = FALSE
    /\ destWeb3' = FALSE
    /\ destContract' = FALSE
    /\ last_processed_block' = 0
    /\ latest_block' = None
    /\ from_block' = 0
    /\ to_block' = 0
    /\ events' = <<>>
    /\ delivered' = {}
    /\ handled' = <<>>
    /\ nap' = NoNap
    /\ scan' = NoScan
    /\ UNCHANGED <<cfg, head, stateFile, hiSaved, gas, destUp, conf>>

\* the process is killed (SIGKILL, power loss)
Kill == StopAt("dead")

\* KeyboardInterrupt. Inside the try of run() it is caught at line 225 and the
\* loop breaks (line 227); the sleep of line 230 is in the handler of line 228,
\* outside the try: raised there, it leaves run() as an exception
Interrupt == StopAt(IF pc = "backoff" THEN "escaped" ELSE "exited")

----------------------------------------------------------------------------

Next ==
    \/ \E connected, live \in BOOLEAN : Construct(connected, live)
    \/ \E live, connected \in BOOLEAN : Reconnect(live, connected)
    \/ LatestUnavailable
    \/ \E L \in Heads(cfg) : NoNewBlocks(L)
    \/ \E L \in Heads(cfg) : BeginScan(L)
    \/ SkipNoContract
    \/ QueryOk
    \/ QueryBlockNotFound
    \/ QueryFails
    \/ \E live, built \in BOOLEAN : \E api \in {"ok", "timeout"} : Dispatch(live, api, built)
    \/ Advance
    \/ SaveOpen
    \/ SaveOpenFails
    \/ SaveWrite
    \/ SaveWriteFails
    \/ Wake
    \/ Kill
    \/ Interrupt

Spec == Init /\ [][Next]_vars

----------------------------------------------------------------------------
(* Failure-free cycles against a fixed head: every probe of either node    *)
(* answers, every query and every write succeeds, the process is not stopped *)

NextHappy ==
    \/ pc = "off" /\ ConstructAll(TRUE, TRUE, TRUE, TRUE)
    \/ NoNewBlocks(head)
    \/ BeginScan(head)
    \/ QueryOk
    \/ Dispatch(TRUE, "ok", TRUE)
    \/ Advance
    \/ SaveOpen
    \/ SaveWrite
    \/ Wake

SpecHappy == Init /\ [][NextHappy]_vars

----------------------------------------------------------------------------
(* _load_state on every content of the checkpoint file *)

\* heights a checkpoint file may name
FileValues(c) == {0, c.start_block, c.start_block + HeadStep(c)}

FileContents(c) ==
    {[kind |-> k, vkind |-> "none", v |-> 0] :
        k \in {"absent", "empty", "partial", "garbage", "nonobject"}}
    \cup {[kind |-> "object", vkind |-> k, v |-> 0] : k \in {"missing", "str", "null", "list"}}
    \cup {[kind |-> "object", vkind |-> k, v |-> n] :
            k \in {"int", "float", "numstr"}, n \in FileValues(c)}
    \cup {[kind |-> "object", vkind |-> "bool", v |-> n] : n \in {0, 1}}

\* no process yet: nothing in memory
Unbuilt ==
    /\ pc = "off"
    /\ srcWeb3 = FALSE
    /\ srcContract = FALSE
    /\ last_processed_block = 0
    /\ latest_block = None
    /\ from_block = 0
    /\ to_block = 0
    /\ events = <<>>
    /\ delivered = {}
    /\ scan = NoScan
    /\ intr = NoIntr
    /\ inflight = NoFlight
    /\ destWeb3 = FALSE
    /\ destContract = FALSE
    /\ destUp = FALSE
    /\ handled = <<>>
    /\ nap = NoNap
    /\ stopAt = "none"

InitLoad ==
    /\ cfg \in Configs
    /\ head \in Heads(cfg)
    /\ stateFile \in FileContents(cfg)
    /\ hiSaved = IF IsHeight(stateFile) THEN stateFile.v ELSE -1
    /\ Unbuilt
    /\ gas = NoGas
    /\ conf = NoConf

NextLoad == \E connected, live \in BOOLEAN : pc = "off" /\ Construct(connected, live)

SpecLoad == InitLoad /\ [][NextLoad]_vars

----------------------------------------------------------------------------
(* _get_gas_price on every outcome of the oracle and of the node *)

InitGas ==
    /\ cfg = CONFIG
    /\ head = cfg.start_block
    /\ stateFile = Absent
    /\ hiSaved = -1
    /\ Unbuilt
    /\ conf = NoConf
    /\ \E a \in ApiOutcomes, d \in DestOutcomes :
         \E g \in (IF a = "ok" THEN 0..MaxGwei ELSE {0}),
            n \in (IF d = "live" THEN NodePrices ELSE {<<0, 0>>}) :
            gas = [NoGas EXCEPT !.api = a, !.gwei = g, !.dest = d, !.node = n]

GetGasPrice ==
    /\ ~gas.done
    /\ gas.api # "none"
    /\ LET r == get_gas_price(gas.api, gas.gwei, gas.dest, gas.node)
       IN gas' = [gas EXCEPT !.done = TRUE, !.raised = r.raised, !.tag = r.tag,
                             !.price = r.price]
    /\ UNCHANGED <<cfg, head, stateFile, pc, srcWeb3, srcContract,
                   last_processed_block, latest_block, from_block, to_block, events,
                   delivered, scan, hiSaved, intr, inflight, destWeb3, destContract,
                   destUp, handled, nap, stopAt, conf>>

NextGas == GetGasPrice

SpecGas == InitGas /\ [][NextGas]_vars

----------------------------------------------------------------------------
(* Claims *)

\* a step of run() that starts the scan of a range
ScanBegins == pc = "top" /\ pc' = "scan"

\* C1: a cycle whose log query fails with BlockNotFound leaves the checkpoint,
\* in memory and in the file, as it was when the cycle began, and the next
\* scanning cycle asks for the same range when the head is the same.
C1_ReorgKeepsCheckpoint ==
    [][/\ scan.res = "bnf" =>
            /\ last_processed_block = scan.from - 1
            /\ stateFile = scan.file
       /\ (scan.res = "bnf" /\ ScanBegins /\ scan'.latest = scan.latest) =>
            (scan'.from = scan.from /\ scan'.to = scan.to)]_vars

\* C2: a cycle whose log query fails with any other error leaves the
\* checkpoint, in memory and in the file, as it was, and the next scanning
\* cycle asks for the same range when the head is the same.
C2_ScanFailedKeepsCheckpoint ==
    [][/\ scan.res = "err" =>
            /\ last_processed_block = scan.from - 1
            /\ stateFile = scan.file
       /\ (scan.res = "err" /\ ScanBegins /\ scan'.latest = scan.latest) =>
            (scan'.from = scan.from /\ scan'.to = scan.to)]_vars

\* C3: whenever the running process moves the checkpoint from c to t > c, the
\* log query for [c + 1, t] was issued in that cycle and answered.
C3_AdvanceNeedsCompletedScan ==
    [][(Running /\ last_processed_block' > last_processed_block) =>
            /\ scan.res = "ok"
            /\ scan.from = last_processed_block + 1
            /\ scan.to = last_processed_block']_vars

\* C4: every height written to the checkpoint file is at least every height
\* written before it, and is the to bound of the cycle in progress, whose
\* scan step ran (its log query was issued).
C4_PersistedMonotone ==
    [][(stateFile' # stateFile /\ IsHeight(stateFile')) =>
            /\ stateFile'.v >= hiSaved
            /\ stateFile'.v = scan.to
            /\ scan.to = ToBlock(scan.latest, scan.from, cfg.batch)
            /\ scan.res \in {"ok", "bnf", "err"}]_vars

\* C5: when the process is stopped inside _save_state, after the file was
\* opened for writing and before the write completed, and the file held a
\* height before, the next load returns that height or the new one.
C5_InterruptedSaveKeepsCheckpoint ==
    (Stopped /\ intr.on /\ IsHeight(intr.prev)) =>
        /\ ~load_state(stateFile, cfg).raised
        /\ load_state(stateFile, cfg).val \in {intr.prev.v, intr.new}

\* C6: whatever the checkpoint file holds, the load does not raise, and it
\* returns the height of a valid object with an integer height and the
\* configured start height in every other case.
C6_LoadNeverFails ==
    pc # "off" =>
        /\ pc = "top"
        /\ last_processed_block =
              IF IsHeight(stateFile) THEN stateFile.v ELSE cfg.start_block

\* C7: after the process stopped between the first dispatch of a batch and the
\* save of its checkpoint, the first scanning cycle of the restarted process
\* starts at the same from, and no event of that batch at or below the new
\* checkpoint has been left out of the dispatch.
C7_AtLeastOnce ==
    (inflight.on /\ pc \in {"scan", "dispatch", "advance", "save_open", "save_write"}) =>
        /\ from_block = inflight.from
        /\ pc \in {"save_open", "save_write"} =>
              \A e \in inflight.evs : e <= last_processed_block => e \in delivered

\* C8: a scanned range starts right after the checkpoint, holds between 1 and
\* batch heights and ends at or below the head; a cycle that finds from above
\* the head scans nothing, issues no query and leaves the checkpoint and the
\* file alone.
C8_BatchBounding ==
    [][/\ pc \in {"scan", "dispatch", "advance"} =>
            /\ from_block = last_processed_block + 1
            /\ from_block <= latest_block
            /\ to_block - from_block + 1 >= 1
            /\ to_block - from_block + 1 <= cfg.batch
            /\ to_block <= latest_block
       /\ (pc = "top" /\ latest_block' # None
              /\ last_processed_block + 1 > latest_block') =>
            /\ pc' = "sleep"
            /\ UNCHANGED <<last_processed_block, stateFile, scan, events, delivered>>]_vars

\* C8 witness: a batch capped by the batch size was scanned below the head,
\* and a later cycle found the head below from and did nothing.
C8_Witness ==
    /\ pc = "sleep"
    /\ latest_block # None
    /\ from_block > latest_block
    /\ scan.res = "ok"
    /\ scan.to - scan.from + 1 = cfg.batch
    /\ scan.to < scan.latest
    /\ last_processed_block = scan.to
    /\ stateFile = Obj(scan.to)

\* C9: against a fixed head, failure-free cycles scan consecutive ranges: the
\* first starts right after the loaded checkpoint, each next one right after
\* the previous to; each holds batch heights unless it ends at the head; a
\* checkpoint below the head is followed by a scan and a checkpoint at the
\* head by empty cycles; each cycle saves its to. With start 1000000, batch 100
\* and head 1000250 the ranges are [1000001,1000100], [1000101,1000200],
\* [1000201,1000250] and the cycle at 1000250 is empty.
C9_GapFreeProgression ==
    [][/\ ScanBegins =>
            /\ scan'.from = IF scan.res = "none"
                            THEN load_state(stateFile, cfg).val + 1
                            ELSE scan.to + 1
            /\ scan'.to >= scan'.from
            /\ scan'.to - scan'.from + 1 = cfg.batch \/ scan'.to = head
            /\ scan'.to - scan'.from + 1 <= cfg.batch
            /\ scan'.latest = head
       /\ (pc = "top" /\ last_processed_block < head) => ScanBegins
       /\ (pc = "top" /\ last_processed_block >= head) =>
            (pc' = "sleep" /\ UNCHANGED <<last_processed_block, stateFile, scan>>)
       /\ pc = "save_write" =>
            (last_processed_block = scan.to /\ stateFile' = Obj(scan.to))
       /\ (cfg = CONFIG /\ head = 1000250 /\ pc = "top") =>
            /\ last_processed_block = 1000000 =>
                  (ScanBegins /\ from_block' = 1000001 /\ to_block' = 1000100)
            /\ last_processed_block = 1000100 =>
                  (ScanBegins /\ from_block' = 1000101 /\ to_block' = 1000200)
            /\ last_processed_block = 1000200 =>
                  (ScanBegins /\ from_block' = 1000201 /\ to_block' = 1000250)
            /\ last_processed_block = 1000250 =>
                  (pc' = "sleep" /\ UNCHANGED <<last_processed_block, stateFile>>)
       /\ head' = head]_vars

\* C9 witness: the end-to-end scenario has run through its three scans and
\* its empty fourth cycle.
C9_Witness ==
    /\ cfg = CONFIG
    /\ head = 1000250
    /\ pc = "sleep"
    /\ scan.from = 1000201
    /\ scan.to = 1000250
    /\ last_processed_block = 1000250
    /\ stateFile = Obj(1000250)
    /\ from_block = 1000251
    /\ latest_block = 1000250

\* C10: the quote never raises; it is the oracle's value converted to wei when
\* the oracle call succeeds, the node's suggestion when the oracle fails and
\* the destination answers, and 20 gwei when the oracle fails and the
\* destination has no handle or its fee query fails.
C10_OracleFallback ==
    gas.done =>
        /\ ~gas.raised
        /\ gas.api = "ok" =>
              (gas.tag = "external-oracle" /\ gas.price = to_wei_gwei(gas.gwei))
        /\ (gas.api # "ok" /\ gas.dest = "live") =>
              (gas.tag = "node-suggested" /\ gas.price = gas.node)
        /\ (gas.api # "ok" /\ gas.dest # "live") =>
              (gas.tag = "hardcoded-floor" /\ gas.price = to_wei_gwei(FLOOR_GWEI))

\* the events handed to process_event in this cycle, in the order of the calls
HandledEvents == [i \in 1..Len(handled) |-> handled[i].ev]

\* C11: in a cycle whose log query answered with n events, process_event is
\* called exactly once on each of them, in a row, whatever the outcome of each
\* call (destination not ready, nonce lookup, gas quote, build or sign failed);
\* after the last call the checkpoint is set to `to` and _save_state is
\* entered, and the file it writes holds `to`.
C11_PerEventIsolation ==
    [][/\ (scan.res = "ok" /\ pc = "dispatch") =>
            /\ HandledEvents \o events = get_all_entries(cfg, scan.from, scan.to)
            /\ (Running' /\ pc' # "dispatch") => (pc' = "advance" /\ events' = <<>>)
       /\ (scan.res = "ok" /\ pc \in {"advance", "save_open", "save_write"}) =>
            HandledEvents = get_all_entries(cfg, scan.from, scan.to)
       /\ (scan.res = "ok" /\ pc = "advance" /\ Running') =>
            (pc' = "save_open" /\ last_processed_block' = scan.to)
       /\ (scan.res = "ok" /\ pc = "save_write" /\ stateFile' # stateFile) =>
            (stateFile' = Obj(scan.to) /\ HandledEvents' = HandledEvents)]_vars

\* C11 witness: a batch of two events, of which the first failed and the
\* second was signed, has been saved.
C11_Witness ==
    /\ pc = "sleep"
    /\ nap.why = "done"
    /\ scan.res = "ok"
    /\ Len(handled) = 2
    /\ handled[1].out = "failed"
    /\ handled[2].out = "signed"
    /\ handled[1].ev # handled[2].ev
    /\ last_processed_block = scan.to
    /\ stateFile = Obj(scan.to)

----------------------------------------------------------------------------
(* The event processor against a destination node that comes and goes: the *)
(* processor is constructed once and is then handed events for ever        *)

InitDest ==
    /\ cfg \in Configs
    /\ head = cfg.start_block
    /\ stateFile = Absent
    /\ hiSaved = -1
    /\ Unbuilt
    /\ gas = NoGas
    /\ conf = NoConf

\* the destination node becomes reachable, or unreachable
DestTurns ==
    /\ pc = "top"
    /\ destUp' = ~destUp
    /\ UNCHANGED <<cfg, head, stateFile, pc, srcWeb3, srcContract,
                   last_processed_block, latest_block, from_block, to_block,
                   events, delivered, scan, hiSaved, intr, inflight, gas,
                   destWeb3, destContract, handled, nap, stopAt, conf>>

\* process_event(e) against the node as it is; handled keeps the last call
HandEvent(e, api) ==
    /\ pc = "top"
    /\ LET ready == destContract /\ destWeb3
           quote == get_gas_price(api, 0, IF destUp THEN "live" ELSE "error", <<0, 0>>)
       IN handled' = <<[ev |-> e, out |-> process_event(ready, destUp, quote.raised, TRUE)]>>
    /\ delivered' = delivered \cup {e}
    /\ UNCHANGED <<cfg, head, stateFile, pc, srcWeb3, srcContract,
                   last_processed_block, latest_block, from_block, to_block,
                   events, scan, hiSaved, intr, inflight, gas, destWeb3,
                   destContract, destUp, nap, stopAt, conf>>

EventsHanded == \E e \in EventBlocks(cfg) : \E api \in {"ok", "timeout"} : HandEvent(e, api)

NextDest ==
    \/ \E dconnected, dlive \in BOOLEAN :
          pc = "off" /\ ConstructAll(TRUE, TRUE, dconnected, dlive)
    \/ DestTurns
    \/ EventsHanded

\* events keep arriving
SpecDest == InitDest /\ [][NextDest]_vars /\ WF_vars(EventsHanded)

\* C12: when the destination node was unreachable at some point of the life
\* of the processor, its construction included, and is reachable for ever from
\* some point on, then from some point on every event handed to process_event
\* is built and signed.
C12_DestinationRecovers ==
    (<>(pc # "off" /\ ~destUp) /\ <>[]destUp) =>
        <>[](\A i \in 1..Len(handled) : handled[i].out = "signed")

----------------------------------------------------------------------------

\* C13: a shutdown signal takes effect only at the top of a cycle: the loop
\* is not left through its shutdown branch from inside the log query, the
\* dispatch of a batch or the save of its checkpoint.
C13_CancelOnlyBetweenBatches ==
    pc = "exited" => stopAt \in {"top", "sleep"}

\* C14: a failure that reaches run() is followed by a sleep of twice the poll
\* interval and a new cycle, and run() is never left by an exception: a
\* shutdown signal ends it through the branch of line 225 wherever it arrives.
C14_LoopNeverExitsOnError ==
    /\ pc = "backoff" => nap.secs = 2 * POLL_INTERVAL
    /\ pc # "escaped"

----------------------------------------------------------------------------
(* ConfigLoader.load (loader.py) *)

\* the keys of the configurations of the model
Keys == {"a", "b"}

\* a value that is not a dictionary; n names the source it was written in
Scalar(n) == [leaf |-> TRUE, v |-> n, d |-> EmptyDict]

\* a value that is a dictionary
Dict(f) == [leaf |-> FALSE, v |-> 0, d |-> f]

IsDict(x) == ~x.leaf

\* the dictionaries of scalars of source n
FlatDicts(n) == UNION {[S -> {Scalar(n)}] : S \in SUBSET Keys}

\* what source n may hold: at each key nothing, a scalar or a dictionary of scalars
SourceDicts(n) ==
    UNION {[S -> {Scalar(n)} \cup {Dict(f) : f \in FlatDicts(n)}] : S \in SUBSET Keys}

\* a faulty _deep_merge: dict.update, a dictionary of the override replaces
\* the dictionary of the base
deep_merge_Update(base, override) ==
    [k \in DOMAIN base \cup DOMAIN override |->
        IF k \in DOMAIN override THEN override[k] ELSE base[k]]

\* lines 71-79
RECURSIVE deep_merge(_, _)
deep_merge(base, override) ==
    [k \in DOMAIN base \cup DOMAIN override |->
        IF k \in DOMAIN override
        THEN IF IsDict(override[k]) /\ k \in DOMAIN base /\ IsDict(base[k])
             THEN Dict(deep_merge(base[k].d, override[k].d))
             ELSE override[k]
        ELSE base[k]]

InitConfig ==
    /\ cfg = CONFIG
    /\ head = cfg.start_block
    /\ stateFile = Absent
    /\ hiSaved = -1
    /\ Unbuilt
    /\ gas = NoGas
    /\ \E b \in SourceDicts(1), e \in SourceDicts(2), v \in SourceDicts(3) :
          conf = [NoConf EXCEPT !.base = b, !.envf = e, !.envv = v]

\* lines 47-58. base: what _load_yaml_file returned for base.yaml; envf: for
\* the file of the environment; envv: what _load_from_env returned
Load ==
    /\ ~conf.done
    /\ conf' = [conf EXCEPT !.final = deep_merge(deep_merge(conf.base, conf.envf), conf.envv),
                            !.done = TRUE]
    /\ UNCHANGED <<cfg, head, stateFile, pc, srcWeb3, srcContract,
                   last_processed_block, latest_block, from_block, to_block, events,
                   delivered, scan, hiSaved, intr, inflight, gas, destWeb3,
                   destContract, destUp, handled, nap, stopAt>>

NextConfig == Load

SpecConfig == InitConfig /\ [][NextConfig]_vars

\* key paths: a key, or a key of a dictionary at a key
Paths == {<<k>> : k \in Keys} \cup {<<k, j>> : k, j \in Keys}

\* dictionary c holds a value at path p
Has(c, p) ==
    /\ p[1] \in DOMAIN c
    /\ Len(p) = 2 => (IsDict(c[p[1]]) /\ p[2] \in DOMAIN c[p[1]].d)

Get(c, p) == IF Len(p) = 1 THEN c[p[1]] ELSE c[p[1]].d[p[2]]

\* the three sources in the order of their merge
Source(n) == CASE n = 1 -> conf.base [] n = 2 -> conf.envf [] n = 3 -> conf.envv

\* the latest source that holds a value at p
Latest(p) == CHOOSE n \in 1..3 : Has(Source(n), p) /\ \A t \in 1..3 : Has(Source(t), p) => t <= n

\* the final value at p is the one of the latest source that holds one
FromLatest(p) ==
    /\ Has(conf.final, p)
    /\ LET x == Get(Source(Latest(p)), p)
       IN IF IsDict(x) THEN IsDict(Get(conf.final, p)) ELSE Get(conf.final, p) = x

\* C16 as claimed: every key path that a source defines has, in the result,
\* the value of the latest source that defines it (paths of earlier sources
\* only are kept, dictionaries are merged key by key), and the result holds
\* nothing else.
C16_Precedence ==
    conf.done =>
        \A p \in Paths :
            IF \E n \in 1..3 : Has(Source(n), p)
            THEN FromLatest(p)
            ELSE ~Has(conf.final, p)

\* source n holds a value at p that no later source hides behind a value, at
\* the first key of p, that is not a dictionary
Effective(n, p) ==
    /\ Has(Source(n), p)
    /\ \A t \in (n + 1)..3 :
          ~(Len(p) = 2 /\ p[1] \in DOMAIN Source(t) /\ ~IsDict(Source(t)[p[1]]))

\* C16, amended: a key path is in the result exactly when some source holds a
\* value at it that no later source hides by holding a non-dictionary at the
\* path's first key; the value is then that of the latest source holding the
\* path, and dictionaries met on both sides are merged key by key.
C16_PrecedenceUnlessHidden ==
    conf.done =>
        \A p \in Paths :
            IF \E n \in 1..3 : Effective(n, p)
            THEN FromLatest(p)
            ELSE ~Has(conf.final, p)

\* C16 witness: under one key the dictionaries of base.yaml and of the
\* environment variables were merged, under the other the dictionary of
\* base.yaml was replaced by the scalar of the environment file.
C16_Witness ==
    /\ conf.done
    /\ Has(conf.base, <<"a", "a">>)
    /\ Has(conf.envv, <<"a", "b">>)
    /\ Get(conf.final, <<"a">>) = Dict([k \in Keys |-> IF k = "a" THEN Scalar(1) ELSE Scalar(3)])
    /\ Has(conf.base, <<"b", "a">>)
    /\ conf.final["b"] = Scalar(2)

----------------------------------------------------------------------------

\* C17: in a cycle whose log query answered, the events are handed to
\* process_event in the order the query returned them; the checkpoint file is
\* not touched before the last of them was handed over, and whenever it is
\* written every event of the batch has been attempted.
C17_DispatchBeforeSave ==
    [][/\ (scan.res = "ok" /\ pc \in {"dispatch", "advance", "save_open", "save_write"}) =>
            /\ Len(handled) <= Len(get_all_entries(cfg, scan.from, scan.to))
            /\ HandledEvents =
                  SubSeq(get_all_entries(cfg, scan.from, scan.to), 1, Len(handled))
       /\ pc \in {"scan", "dispatch", "advance"} =>
            (stateFile = scan.file /\ stateFile' = stateFile)
       /\ (scan.res = "ok" /\ stateFile' # stateFile) =>
            /\ pc \in {"save_open", "save_write"}
            /\ events = <<>>
            /\ SeqSet(HandledEvents) = SeqSet(get_all_entries(cfg, scan.from, scan.to))]_vars

\* C17 witness: the two events of a batch were signed one after the other,
\* and the checkpoint of the batch was written after that.
C17_Witness ==
    /\ pc = "sleep"
    /\ nap.why = "done"
    /\ scan.res = "ok"
    /\ Len(handled) = 2
    /\ handled[1].ev < handled[2].ev
    /\ handled[1].out = "signed"
    /\ handled[2].out = "signed"
    /\ scan.file # Obj(scan.to)
    /\ stateFile = Obj(scan.to)

\* C18: a cycle that finds the source connection not live calls connect()
\* once and sleeps the poll interval; a cycle that gets no latest height sleeps
\* the poll interval; neither issues a log query or dispatches an event, both
\* leave the checkpoint in memory and the file as they were, and the loop
\* starts a new cycle after the sleep.
C18_NoSourceNoChange ==
    [][/\ (pc = "top" /\ ~srcWeb3 /\ Running') =>
            (pc' = "sleep" /\ nap'.why = "reconnect")
       /\ (pc = "top" /\ pc' = "sleep" /\ nap'.why \in {"reconnect", "nolatest"}) =>
            /\ nap'.secs = POLL_INTERVAL
            /\ nap'.connects = IF nap'.why = "reconnect" THEN 1 ELSE 0
            /\ UNCHANGED <<last_processed_block, stateFile, hiSaved, scan, events,
                           delivered, handled, srcContract>>
       /\ (pc = "sleep" /\ Running') =>
            (pc' = "top" /\ UNCHANGED <<last_processed_block, stateFile, scan>>)]_vars

\* C18 witness: after a saved batch the source connection was found dead, the
\* connect attempt failed, and the loop sleeps with the checkpoint as it was.
C18_Witness ==
    /\ pc = "sleep"
    /\ nap.why = "reconnect"
    /\ nap.secs = POLL_INTERVAL
    /\ ~srcWeb3
    /\ scan.res = "ok"
    /\ last_processed_block = scan.to
    /\ stateFile = Obj(scan.to)

\* C19: when the write of the checkpoint of a batch fails, the checkpoint in
\* memory stays at `to`, the loop goes on to a new cycle with it, and the file
\* still holds the height it held before the cycle.
C19_PersistFailureKeepsProgress ==
    [][pc = "backoff" =>
            /\ last_processed_block = scan.to
            /\ IsHeight(scan.file) => stateFile = scan.file
            /\ Running' => (pc' = "top" /\ UNCHANGED last_processed_block)]_vars

\* C20: no cycle of a live source connection with a due range is skipped for
\* want of the contract handle.
C20_ScanResumesAfterReconnect ==
    (Running /\ srcWeb3) => scan.res # "nocontract"

----------------------------------------------------------------------------
(* ConfigLoader._load_from_env and _parse_value (loader.py) *)

\* the most variables os.environ holds
MaxVars == 3

\* names of environment variables: APP_A, APP_a, APP_B, APP_A__B and HOME.
\* pre: the name starts with env_prefix; segs: the rest of it, split at "__"
EnvNames ==
    {[pre |-> TRUE, segs |-> <<"A">>], [pre |-> TRUE, segs |-> <<"a">>],
     [pre |-> TRUE, segs |-> <<"B">>], [pre |-> TRUE, segs |-> <<"A", "B">>],
     [pre |-> FALSE, segs |-> <<"HOME">>]}

\* values of environment variables
EnvValues == {"7", "True"}

\* str.lower() on the segments of the model
Lower(s) ==
    CASE s = "A" -> "a" [] s = "B" -> "b" [] s = "HOME" -> "home"
      [] s = "True" -> "true" [] OTHER -> s

\* lines 99-111: a bool, an int, a float or the string itself
parse_value(s) ==
    CASE Lower(s) \in {"true", "false"} -> [kind |-> "bool", of |-> Lower(s)]
      [] s \in {"7"} -> [kind |-> "int", of |-> s]
      [] OTHER -> [kind |-> "str", of |-> s]

\* os.environ.items(): up to MaxVars variables of distinct names, in an order
Environs ==
    UNION {{e \in [1..n -> [name : EnvNames, value : EnvValues]] :
                \A i, j \in 1..n : e[i].name = e[j].name => i = j} : n \in 0..MaxVars}

\* d[k] = x
Put(d, k, x) == [j \in DOMAIN d \cup {k} |-> IF j = k THEN x ELSE d[j]]

\* lines 85-96, one variable. acc: config so far, or the exception raised
EnvStep(acc, item) ==
    IF acc.raised \/ ~item.name.pre THEN acc
    ELSE LET path == [i \in 1..Len(item.name.segs) |-> Lower(item.name.segs[i])]
             val == Scalar(parse_value(item.value))
             config == acc.config
         IN IF Len(path) = 1
            THEN [raised |-> FALSE, config |-> Put(config, path[1], val)]
            ELSE IF path[1] \notin DOMAIN config
                 THEN [raised |-> FALSE,
                       config |-> Put(config, path[1], Dict(Put(EmptyDict, path[2], val)))]
                 ELSE IF IsDict(config[path[1]])
                      THEN [raised |-> FALSE,
                            config |-> Put(config, path[1],
                                           Dict(Put(config[path[1]].d, path[2], val)))]
                      \* line 96 on an int, a bool or a str: TypeError
                      ELSE [raised |-> TRUE, config |-> EmptyDict]

\* lines 83-97: the loop over the variables in their order
RECURSIVE EnvFold(_, _)
EnvFold(acc, items) ==
    IF items = <<>> THEN acc ELSE EnvFold(EnvStep(acc, Head(items)), Tail(items))

load_from_env(items) == EnvFold([raised |-> FALSE, config |-> EmptyDict], items)

InitEnv ==
    /\ cfg = CONFIG
    /\ head = cfg.start_block
    /\ stateFile = Absent
    /\ hiSaved = -1
    /\ Unbuilt
    /\ gas = NoGas
    /\ \E e \in Environs : conf = [NoConf EXCEPT !.environ = e]

\* line 55: env_vars_config = self._load_from_env()
LoadFromEnv ==
    /\ ~conf.envdone
    /\ LET r == load_from_env(conf.environ)
       IN conf' = [conf EXCEPT !.envv = r.config, !.raised = r.raised, !.envdone = TRUE]
    /\ UNCHANGED <<cfg, head, stateFile, pc, srcWeb3, srcContract,
                   last_processed_block, latest_block, from_block, to_block, events,
                   delivered, scan, hiSaved, intr, inflight, gas, destWeb3,
                   destContract, destUp, handled, nap, stopAt>>

NextEnv == LoadFromEnv

SpecEnv == InitEnv /\ [][NextEnv]_vars

\* the orders in which n variables can be iterated
Orders(n) == {p \in [1..n -> 1..n] : \A i, j \in 1..n : p[i] = p[j] => i = j}

\* C21: for every set of environment variables, a name that is a proper
\* prefix of another's included, _load_from_env does not raise and returns
\* the dictionary it returns for every other iteration order of the same
\* variables.
C21_EnvOrderIndependentTotal ==
    conf.envdone =>
        /\ ~conf.raised
        /\ \A p \in Orders(Len(conf.environ)) :
              load_from_env([i \in 1..Len(conf.environ) |-> conf.environ[p[i]]])
                 = [raised |-> FALSE, config |-> conf.envv]

====
